---- MODULE Spec2Model ----
(***************************************************************************)
(* A model of the MARS action model: the parse / to_dict / to_cmd_data     *)
(* transcoding of Definition variants (Path, Drilling, Probing,            *)
(* Manipulation), of Movement, Position and Configuration, and the Action  *)
(* entity with its command dispatch.                                       *)
(*                                                                         *)
(* Python values are modelled as follows.                                  *)
(*   - a dict whose key order is observable (a position vector, a          *)
(*     movement's parameters) is a sequence of <<key, value>> pairs in     *)
(*     insertion order; every other dict is a record;                      *)
(*   - an Enum member is a record [name, value];                           *)
(*   - a call returns Return(v) or Raise(type, arg);                       *)
(*   - a float of a position vector is an integer count of 1/10000 units,  *)
(*     so 12345 is 1.2345 and round(x, 3) is rounding to a multiple of 10. *)
(***************************************************************************)
EXTENDS Integers, Sequences, FiniteSets, TLC

VARIABLES
  EQUIPMENT,         \* model.EQUIPMENT, the equipment registry
  REFERENCE,         \* model.REFERENCE, the frame registry
  COMMAND_REGISTER,  \* model.COMMAND_REGISTER, action type -> generator
  pc,                \* what the caller did last
  rec,               \* the record handed to the parse under study
  res,               \* what that parse returned or raised
  ser,               \* what to_dict returned for the parsed object
  res2,              \* what parsing `ser` again returned or raised
  cmd,               \* what to_cmd_data returned for the parsed object
  action,            \* the Action the caller holds, or None
  built,             \* the Action as its constructor left it
  ret,               \* what the last call on the Action returned or raised
  calls,             \* the arguments the command generator was invoked with
  stdout             \* what was printed to the console

vars == <<EQUIPMENT, REFERENCE, COMMAND_REGISTER, pc, rec, res, ser, res2,
          cmd, action, built, ret, calls, stdout>>

---------------------------------------------------------------------------
(* Bounds of the model. *)

\* The longest movement list of a Path record.
MaxMovements == 2

\* The longest Command list a generator returns.
MaxCommands == 2

---------------------------------------------------------------------------
(* Python plumbing. *)

None == [py |-> "None"]

Return(v) == [ok |-> TRUE, val |-> v]

Raise(t, a) == [ok |-> FALSE, exc |-> [type |-> t, arg |-> a]]

KeyError(k) == Raise("KeyError", k)

Has(d, k) == k \in DOMAIN d

\* d[k] for an insertion-ordered dict d given as a sequence of pairs.
DictHas(d, k) == \E i \in 1..Len(d) : d[i][1] = k

DictGet(d, k) == d[CHOOSE i \in 1..Len(d) : d[i][1] = k][2]

\* Iterating a dict yields its keys, in insertion order.
DictKeys(d) == [i \in 1..Len(d) |-> d[i][1]]

\* dict(list of pairs): a later pair of the same key overwrites the value
\* and keeps the first position.  The key lists used here have no repeats.
DictOf(pairs) == pairs

\* round(float(x), 3) on a count of 1/10000 units: the nearest multiple of
\* 10.  A tie (last digit 5) is decided in Python by the binary expansion
\* of the float; half-even is used here and no enumerated input has a tie.
Round3(x) ==
  LET q == x \div 10
      r == x % 10
  IN  IF r < 5 THEN q * 10
      ELSE IF r > 5 THEN (q + 1) * 10
      ELSE IF q % 2 = 0 THEN q * 10 ELSE (q + 1) * 10

---------------------------------------------------------------------------
(* movement.py: the enumerations. *)

Member(n, v) == [name |-> n, value |-> v]

MovementType ==
  [CIRCULAR |-> Member("CIRCULAR", "C"),
   LINEAR   |-> Member("LINEAR", "L"),
   JOINT    |-> Member("JOINT", "J")]

PositionType ==
  [JOINT     |-> Member("JOINT", "jnt"),
   CARTESIAN |-> Member("CARTESIAN", "crt")]

WristConfig ==
  [FLIP   |-> Member("FLIP", "F"),
   NOFLIP |-> Member("NOFLIP", "N")]

ForeArmConfig ==
  [UP   |-> Member("UP", "U"),
   DOWN |-> Member("DOWN", "D")]

ArmConfig ==
  [TOWARD   |-> Member("TOWARD", "T"),
   BACKWARD |-> Member("BACKWARD", "D")]

---------------------------------------------------------------------------
(* movement.py: Configuration. *)

\* Configuration.__init__: the three rotation codes are set to 0 whatever
\* the arguments are.
Configuration(wrist, forearm, arm, j4, j5, j6) ==
  [class |-> "Configuration", wrist |-> wrist, forearm |-> forearm,
   arm |-> arm, j4 |-> 0, j5 |-> 0, j6 |-> 0]

ConfigurationParse(c) ==
  IF ~Has(c, "wrist") THEN KeyError("wrist")
  ELSE IF ~Has(WristConfig, c.wrist) THEN KeyError(c.wrist)
  ELSE IF ~Has(c, "forearm") THEN KeyError("forearm")
  ELSE IF ~Has(ForeArmConfig, c.forearm) THEN KeyError(c.forearm)
  ELSE IF ~Has(c, "arm") THEN KeyError("arm")
  ELSE IF ~Has(ArmConfig, c.arm) THEN KeyError(c.arm)
  ELSE IF ~Has(c, "j4") THEN KeyError("j4")
  ELSE IF ~Has(c, "j5") THEN KeyError("j5")
  ELSE IF ~Has(c, "j6") THEN KeyError("j6")
  ELSE Return(Configuration(WristConfig[c.wrist], ForeArmConfig[c.forearm],
                            ArmConfig[c.arm], c.j4, c.j5, c.j6))

ConfigurationToDict(c) ==
  [wrist |-> c.wrist.name, forearm |-> c.forearm.name, arm |-> c.arm.name,
   j4 |-> c.j4, j5 |-> c.j5, j6 |-> c.j6]

ConfigurationToCmdData(c) ==
  [wrist |-> c.wrist.name, forearm |-> c.forearm.name, arm |-> c.arm.name,
   j4 |-> c.j4, j5 |-> c.j5, j6 |-> c.j6]

---------------------------------------------------------------------------
(* movement.py: Position, PositionCrt, PositionJoint. *)

PositionCrtKeys == <<"x", "y", "z", "w", "p", "r">>

PositionJointKeys == <<"j1", "j2", "j3", "j4", "j5", "j6">>

\* The Cartesian keys for every variant.
VectorKeys_Shared(class) == PositionCrtKeys

\* self.__class__._VECTOR_KEYS
VectorKeys(class) ==
  IF class = "PositionCrt" THEN PositionCrtKeys ELSE PositionJointKeys

\* Position.__init__; ut and uf keep their defaults in every caller.
Position(class, pvector, ptype, e1, config) ==
  [class |-> class, vector |-> pvector, type |-> ptype, config |-> config,
   e1 |-> e1, ut |-> 0, uf |-> 0]

\* The first key of `keys`, from index i on, that dict d lacks; 0 if none.
RECURSIVE FirstMissing(_, _, _)
FirstMissing(d, keys, i) ==
  IF i > Len(keys) THEN 0
  ELSE IF ~DictHas(d, keys[i]) THEN i
  ELSE FirstMissing(d, keys, i + 1)

\* [svector[key] for key in cls._VECTOR_KEYS]
VectorArray(svector, keys) == [i \in 1..Len(keys) |-> DictGet(svector, keys[i])]

PositionCrtParse(p) ==
  IF ~Has(p, "e1") THEN KeyError("e1")
  ELSE IF ~Has(p, "config") THEN KeyError("config")
  ELSE LET c == ConfigurationParse(p.config) IN
    IF ~c.ok THEN c
    ELSE IF ~Has(p, "vector") THEN KeyError("vector")
    ELSE LET miss == FirstMissing(p.vector, PositionCrtKeys, 1) IN
      IF miss # 0 THEN KeyError(PositionCrtKeys[miss])
      ELSE Return(Position("PositionCrt",
                           VectorArray(p.vector, PositionCrtKeys),
                           PositionType.CARTESIAN, p.e1, c.val))

PositionJointParse(p) ==
  IF ~Has(p, "e1") THEN KeyError("e1")
  ELSE IF ~Has(p, "vector") THEN KeyError("vector")
  ELSE LET miss == FirstMissing(p.vector, PositionJointKeys, 1) IN
    IF miss # 0 THEN KeyError(PositionJointKeys[miss])
    ELSE Return(Position("PositionJoint",
                         VectorArray(p.vector, PositionJointKeys),
                         PositionType.JOINT, p.e1, None))

PositionParse(p) ==
  IF ~Has(p, "type") THEN KeyError("type")
  ELSE IF p.type = "CARTESIAN" THEN PositionCrtParse(p)
  ELSE IF p.type = "JOINT" THEN PositionJointParse(p)
  ELSE Raise("Exception", "position parsing default")

\* Position.__vector_to_dict
VectorToDict(pos) ==
  LET keys == VectorKeys(pos.class) IN
  DictOf([i \in 1..Len(keys) |-> <<keys[i], Round3(pos.vector[i])>>])

PositionToDict(pos) ==
  [ut |-> pos.ut, uf |-> pos.uf, type |-> pos.type.name, e1 |-> pos.e1,
   vector |-> VectorToDict(pos),
   config |-> IF pos.config # None THEN ConfigurationToDict(pos.config)
              ELSE None]

PositionToCmdData(pos) ==
  [ut |-> pos.ut, uf |-> pos.uf, type |-> pos.type.value, e1 |-> pos.e1,
   vector |-> VectorToDict(pos),
   config |-> IF pos.config # None THEN ConfigurationToCmdData(pos.config)
              ELSE None]

\* The setter of Position.vector: the new vector is stored as given.
PositionSetVector(self, nvector) ==
  [self |-> [self EXCEPT !.vector = nvector], ret |-> Return(None)]

\* An e1 setter that stores the value in the tool number as well.
PositionSetE1_AlsoUt(self, ne1) ==
  [self |-> [self EXCEPT !.e1 = ne1, !.ut = ne1], ret |-> Return(None)]

\* The setter of Position.e1.
PositionSetE1(self, ne1) ==
  [self |-> [self EXCEPT !.e1 = ne1], ret |-> Return(None)]

---------------------------------------------------------------------------
(* movement.py: Movement. *)

Movement(cnt, speed, type, position) ==
  [class |-> "Movement", cnt |-> cnt, speed |-> speed,
   position |-> position, type |-> type]

MovementParse(m) ==
  IF ~Has(m, "cnt") THEN KeyError("cnt")
  ELSE IF ~Has(m, "type") THEN KeyError("type")
  ELSE IF ~Has(MovementType, m.type) THEN KeyError(m.type)
  ELSE IF ~Has(m, "speed") THEN KeyError("speed")
  ELSE IF ~Has(m, "position") THEN KeyError("position")
  ELSE LET p == PositionParse(m.position) IN
    IF ~p.ok THEN p
    ELSE Return(Movement(m.cnt, m.speed, MovementType[m.type], p.val))

MovementToDict(m) ==
  [cnt |-> m.cnt, speed |-> m.speed, position |-> PositionToDict(m.position),
   type |-> m.type.name]

MovementToCmdData(m) ==
  [parameters |-> << <<"cnt", m.cnt>>, <<"speed", m.speed>>,
                     <<"type", m.type>> >>,
   position |-> PositionToCmdData(m.position)]

---------------------------------------------------------------------------
(* equipment.py, reference.py and __init__.py: symbols and registries.     *)
(* A registry maps a kind to an Enum class, given as its class name and    *)
(* its members (member name -> member value); registry[kind][name] is the  *)
(* Enum lookup by member name.                                             *)

\* str.upper() on the class names that occur.
Upper(s) ==
  CASE s = "Effector" -> "EFFECTOR"
    [] s = "Frame" -> "FRAME"
    [] OTHER -> s

Symbol(cls, n, v) == [cls |-> cls, name |-> n, value |-> v]

\* EquipmentI.type / ReferenceI.type
SymbolType(sym) == Upper(sym.cls)

\* EquipmentI.reference / ReferenceI.reference
SymbolReference(sym) == sym.value

\* registry[kind][ref]
Lookup(registry, kind, ref) ==
  IF ~Has(registry, kind) THEN KeyError(kind)
  ELSE IF ~Has(registry[kind].members, ref) THEN KeyError(ref)
  ELSE Return(Symbol(registry[kind].cls, ref, registry[kind].members[ref]))

\* equipment.load
Load(equipment) ==
  [manipulation |-> "LOAD",
   equipment |-> [type |-> SymbolType(equipment),
                  reference |-> SymbolReference(equipment)]]

\* equipment.unload
Unload(equipment) ==
  [manipulation |-> "UNLOAD",
   equipment |-> [type |-> SymbolType(equipment),
                  reference |-> SymbolReference(equipment)]]

\* The member's value is the function it wraps.
Operation ==
  [LOAD   |-> Member("LOAD", "load"),
   UNLOAD |-> Member("UNLOAD", "unload")]

\* Operation.apply_on
ApplyOn(op, equipment) ==
  IF op.value = "load" THEN Load(equipment) ELSE Unload(equipment)

---------------------------------------------------------------------------
(* definition.py: Path. *)

Path(uf, ut, movements) ==
  [class |-> "Path", uf |-> uf, ut |-> ut, movements |-> movements]

\* The loop of Path.parse: the movements parsed so far, or the error of the
\* first one that fails.
RECURSIVE ParseMovements(_, _, _)
ParseMovements(sms, i, movements) ==
  IF i > Len(sms) THEN Return(movements)
  ELSE LET m == MovementParse(sms[i]) IN
    IF ~m.ok THEN m
    ELSE ParseMovements(sms, i + 1, Append(movements, m.val))

PathParse(r) ==
  IF ~Has(r, "ut") THEN KeyError("ut")
  ELSE LET ut == Lookup(EQUIPMENT, "EFFECTOR", r.ut) IN
    IF ~ut.ok THEN ut
    ELSE IF ~Has(r, "uf") THEN KeyError("uf")
    ELSE LET uf == Lookup(REFERENCE, "FRAME", r.uf) IN
      IF ~uf.ok THEN uf
      ELSE IF ~Has(r, "movements") THEN KeyError("movements")
      ELSE LET ms == ParseMovements(r.movements, 1, <<>>) IN
        IF ~ms.ok THEN ms
        ELSE Return(Path(uf.val, ut.val, ms.val))

\* Path.to_dict emitting the symbols' raw codes in place of their names.
PathToDict_RawCodes(p) ==
  [uf |-> p.uf.value, ut |-> p.ut.value,
   movements |-> [i \in 1..Len(p.movements) |-> MovementToDict(p.movements[i])]]

PathToDict(p) ==
  [uf |-> p.uf.name, ut |-> p.ut.name,
   movements |-> [i \in 1..Len(p.movements) |-> MovementToDict(p.movements[i])]]

\* list.extend(iterable): the items the iterable yields are appended; a dict
\* yields its keys.
ListExtendDict(list, d) == list \o DictKeys(d)

\* The loop of Path.to_cmd_data over movements i.., with the two lists so far.
RECURSIVE CmdDataLoop(_, _, _, _)
CmdDataLoop(movements, i, m_paras, m_positions) ==
  IF i > Len(movements)
  THEN [parameters |-> m_paras, positions |-> m_positions]
  ELSE LET mvt_cmd_def == MovementToCmdData(movements[i]) IN
    CmdDataLoop(movements, i + 1,
                ListExtendDict(m_paras, mvt_cmd_def.parameters),
                Append(m_positions, mvt_cmd_def.position))

PathToCmdData(p) ==
  [uf |-> p.uf.value, ut |-> p.ut.value,
   movements |-> CmdDataLoop(p.movements, 1, <<>>, <<>>)]

---------------------------------------------------------------------------
(* definition.py: Drilling. *)

Drilling(speed, feed, peak_frequency, peak_amplitude, clamp_weight, drill_thickness) ==
  [class |-> "Drilling", speed |-> speed, feed |-> feed,
   drill_thickness |-> drill_thickness, peak_frequency |-> peak_frequency,
   peak_amplitude |-> peak_amplitude, clamp_weight |-> clamp_weight]

DrillingParse(r) ==
  IF ~Has(r, "speed") THEN KeyError("speed")
  ELSE IF ~Has(r, "feed") THEN KeyError("feed")
  ELSE IF ~Has(r, "peak_frequency") THEN KeyError("peak_frequency")
  ELSE IF ~Has(r, "peak_amplitude") THEN KeyError("peak_amplitude")
  ELSE IF ~Has(r, "clamp_weight") THEN KeyError("clamp_weight")
  ELSE IF ~Has(r, "drill_thickness") THEN KeyError("drill_thickness")
  ELSE Return(Drilling(r.speed, r.feed, r.peak_frequency, r.peak_amplitude,
                       r.clamp_weight, r.drill_thickness))

\* Drilling.to_dict with clamp_weight and drill_thickness exchanged.
DrillingToDict_Exchanged(d) ==
  [speed |-> d.speed, feed |-> d.feed, peak_frequency |-> d.peak_frequency,
   peak_amplitude |-> d.peak_amplitude, clamp_weight |-> d.drill_thickness,
   drill_thickness |-> d.clamp_weight]

DrillingToDict(d) ==
  [speed |-> d.speed, feed |-> d.feed, peak_frequency |-> d.peak_frequency,
   peak_amplitude |-> d.peak_amplitude, clamp_weight |-> d.clamp_weight,
   drill_thickness |-> d.drill_thickness]

---------------------------------------------------------------------------
(* definition.py: Probing. *)

Probing(ut, uf, movement) ==
  [class |-> "Probing", uf |-> uf, ut |-> ut, movement |-> movement]

\* The except clause re-raises the KeyError unchanged.
ProbingParse(r) ==
  IF ~Has(r, "ut") THEN KeyError("ut")
  ELSE LET ut == Lookup(EQUIPMENT, "EFFECTOR", r.ut) IN
    IF ~ut.ok THEN ut
    ELSE IF ~Has(r, "uf") THEN KeyError("uf")
    ELSE LET uf == Lookup(REFERENCE, "FRAME", r.uf) IN
      IF ~uf.ok THEN uf
      ELSE IF ~Has(r, "movement") THEN KeyError("movement")
      ELSE LET m == MovementParse(r.movement) IN
        IF ~m.ok THEN m
        ELSE Return(Probing(ut.val, uf.val, m.val))

ProbingToDict(p) ==
  [ut |-> p.ut.name, uf |-> p.uf.name, movement |-> MovementToDict(p.movement)]

---------------------------------------------------------------------------
(* definition.py: Manipulation. *)

Manipulation(manipulation_type, equipment) ==
  [class |-> "Manipulation", operation |-> manipulation_type,
   equipment |-> equipment]

ManipulationParse(r) ==
  IF ~Has(r, "equipment") THEN KeyError("equipment")
  ELSE IF ~Has(r.equipment, "type") THEN KeyError("type")
  ELSE IF ~Has(r.equipment, "reference") THEN KeyError("reference")
  ELSE IF ~Has(r, "manipulation") THEN KeyError("manipulation")
  ELSE LET equipement == Lookup(EQUIPMENT, r.equipment.type,
                                r.equipment.reference) IN
    IF ~equipement.ok THEN equipement
    ELSE IF ~Has(Operation, r.manipulation) THEN KeyError(r.manipulation)
    ELSE Return(Manipulation(Operation[r.manipulation], equipement.val))

ManipulationToDict(m) == ApplyOn(m.operation, m.equipment)

---------------------------------------------------------------------------
(* The registries the process may have been started with.  They are        *)
(* populated from outside this package: a member's value is the raw code   *)
(* Path.to_cmd_data sends to the controller, which may or may not be       *)
(* spelled like the member's name.                                         *)

EquipmentRegistries ==
  { [EFFECTOR |-> [cls |-> "Effector",
                   members |-> [GUN1 |-> "GUN1", DRILL1 |-> "DRILL1"]]],
    [EFFECTOR |-> [cls |-> "Effector",
                   members |-> [GUN1 |-> "1", DRILL1 |-> "2"]]] }

ReferenceRegistries ==
  { [FRAME |-> [cls |-> "Frame",
                members |-> [WORLD |-> "0", PART |-> "1"]]] }

---------------------------------------------------------------------------
(* The records handed to the parsers. *)

\* A dict without key k.
Without(d, k) == [x \in DOMAIN d \ {k} |-> d[x]]

\* A vector dict: the values under the keys, inserted in the keys' order.
VectorDict(keys, vals) == [i \in 1..Len(keys) |-> <<keys[i], vals[i]>>]

\* The same dict with its keys inserted in the opposite order.
Reversed(d) == [i \in 1..Len(d) |-> d[Len(d) + 1 - i]]

\* 0.0, 1.0, -2.5, 0.123, 0.0, 90.0: no more than three decimals.
VecShort == <<0, 10000, -25000, 1230, 0, 900000>>

\* 1.2344, -0.0007, 1.0006, 0.0, 45.9999, 0.0003: four decimals.
VecLong == <<12344, -7, 10006, 0, 459999, 3>>

ConfigRecords ==
  { [wrist |-> "NOFLIP", forearm |-> "UP", arm |-> "TOWARD",
     j4 |-> 0, j5 |-> 0, j6 |-> 0],
    [wrist |-> "FLIP", forearm |-> "DOWN", arm |-> "BACKWARD",
     j4 |-> 1, j5 |-> -1, j6 |-> 0] }

CrtRecord(vals, e1, config) ==
  [type |-> "CARTESIAN", e1 |-> e1, config |-> config,
   vector |-> VectorDict(PositionCrtKeys, vals)]

JointRecord(vals, e1) ==
  [type |-> "JOINT", e1 |-> e1, vector |-> VectorDict(PositionJointKeys, vals)]

ValidCrtRecords ==
  { CrtRecord(VecShort, 0,
              [wrist |-> "NOFLIP", forearm |-> "UP", arm |-> "TOWARD",
               j4 |-> 0, j5 |-> 0, j6 |-> 0]),
    CrtRecord(VecLong, 7,
              [wrist |-> "FLIP", forearm |-> "DOWN", arm |-> "BACKWARD",
               j4 |-> 1, j5 |-> -1, j6 |-> 0]) }

ValidJointRecords ==
  { [JointRecord(VecShort, 0) EXCEPT !.vector = Reversed(@)],
    JointRecord(VecLong, 7) }

ValidPositionRecords == ValidCrtRecords \cup ValidJointRecords

BadPositionRecords ==
  { [JointRecord(VecShort, 0) EXCEPT !.type = "POLAR"],
    Without(CrtRecord(VecShort, 0, CHOOSE c \in ConfigRecords : c.j4 = 0),
            "config"),
    [JointRecord(VecShort, 0) EXCEPT !.vector = SubSeq(@, 1, 5)],
    [CrtRecord(VecShort, 0, CHOOSE c \in ConfigRecords : c.j4 = 0)
       EXCEPT !.config.wrist = "TWIST"],
    Without(JointRecord(VecLong, 7), "e1") }

PositionRecords == ValidPositionRecords \cup BadPositionRecords

MovementRecord(cnt, type, speed, position) ==
  [cnt |-> cnt, type |-> type, speed |-> speed, position |-> position]

\* One movement per valid position, each with its own cnt, speed and type.
ValidMovementRecords ==
  { MovementRecord(IF p.type = "JOINT" THEN 100 ELSE p.e1,
                   IF p.type = "JOINT" THEN "JOINT"
                   ELSE IF p.e1 = 0 THEN "LINEAR" ELSE "CIRCULAR",
                   500 + p.e1, p) : p \in ValidPositionRecords }

BadMovementRecords ==
  { MovementRecord(0, "SPLINE", 500, JointRecord(VecShort, 0)),
    MovementRecord(0, "LINEAR", 500,
                   [JointRecord(VecShort, 0) EXCEPT !.type = "POLAR"]),
    Without(MovementRecord(0, "JOINT", 500, JointRecord(VecShort, 0)),
            "speed") }

MovementRecords == ValidMovementRecords \cup BadMovementRecords

\* The sequences over S of length up to n.
SeqsUpTo(S, n) == UNION { [1..k -> S] : k \in 0..n }

ToolNames == {"GUN1", "DRILL1", "SAW9"}

FrameNames == {"WORLD", "PART", "MOON"}

PathRecords ==
  { [uf |-> "WORLD", ut |-> ut, movements |-> ms] :
      ut \in ToolNames, ms \in SeqsUpTo(MovementRecords, MaxMovements) }
  \cup
  { [uf |-> uf, ut |-> "GUN1", movements |-> ms] :
      uf \in FrameNames \ {"WORLD"},
      ms \in SeqsUpTo(ValidMovementRecords, 1) }
  \cup
  { Without([uf |-> "PART", ut |-> "GUN1", movements |-> <<>>], k) :
      k \in {"uf", "ut", "movements"} }

FullDrillingRecords ==
  { [speed |-> 1200, feed |-> 5, peak_frequency |-> f, peak_amplitude |-> 2,
     clamp_weight |-> 30, drill_thickness |-> 12] : f \in {0, 50} }

\* The short schema: speed, feed and a peak flag.
PeakDrillingRecord == [speed |-> 1200, feed |-> 5, peak |-> TRUE]

DrillingRecords ==
  FullDrillingRecords
  \cup {PeakDrillingRecord}
  \cup { Without(CHOOSE d \in FullDrillingRecords : d.peak_frequency = 50, k) :
           k \in {"speed", "feed", "peak_frequency", "peak_amplitude",
                  "clamp_weight", "drill_thickness"} }

ProbingRecords ==
  { [ut |-> ut, uf |-> "PART", movement |-> m] :
      ut \in ToolNames, m \in MovementRecords }
  \cup
  { [ut |-> "DRILL1", uf |-> uf, movement |-> m] :
      uf \in FrameNames, m \in ValidMovementRecords }
  \cup
  { Without([ut |-> "GUN1", uf |-> "PART",
             movement |-> CHOOSE m \in ValidMovementRecords : m.cnt = 0], k) :
      k \in {"uf", "ut", "movement"} }

ManipulationRecords ==
  { [equipment |-> [type |-> t, reference |-> r], manipulation |-> o] :
      t \in {"EFFECTOR", "STATION"}, r \in ToolNames,
      o \in {"LOAD", "UNLOAD", "SWAP"} }
  \cup
  { Without([equipment |-> [type |-> "EFFECTOR", reference |-> "GUN1"],
             manipulation |-> "LOAD"], k) : k \in {"equipment", "manipulation"} }
  \cup
  { [equipment |-> Without([type |-> "EFFECTOR", reference |-> "GUN1"], k),
     manipulation |-> "LOAD"] : k \in {"type", "reference"} }

---------------------------------------------------------------------------
(* command.py: Command. *)

\* Command.__init__; uid is the str(uuid4()) drawn at construction.
Command(uid, target, atype, description, definition) ==
  [class |-> "Command", uid |-> uid, action |-> atype, target |-> target,
   description |-> description, definition |-> definition]

CommandToDict(c) ==
  [uid |-> c.uid, action |-> c.action, target |-> c.target,
   description |-> c.description, definition |-> c.definition]

---------------------------------------------------------------------------
(* action.py: Action. *)

ACTION_DEFINITION ==
  [t \in {"MOVE.TCP.WORK", "MOVE.TCP.APPROACH", "MOVE.TCP.CLEARANCE",
          "MOVE.STATION.WORK", "MOVE.STATION.TOOL", "MOVE.STATION.HOME",
          "WORK.DRILL", "WORK.PROBE", "LOAD.EFFECTOR", "UNLOAD.EFFECTOR"} |->
     CASE t = "WORK.DRILL" -> "Drilling"
       [] t = "WORK.PROBE" -> "Probing"
       [] t \in {"LOAD.EFFECTOR", "UNLOAD.EFFECTOR"} -> "Manipulation"
       [] OTHER -> "Path"]

\* definition_object.parse(...)
DefinitionParse(class, r) ==
  CASE class = "Path" -> PathParse(r)
    [] class = "Drilling" -> DrillingParse(r)
    [] class = "Probing" -> ProbingParse(r)
    [] class = "Manipulation" -> ManipulationParse(r)

\* self.__definition.to_dict()
DefinitionToDict(d) ==
  CASE d.class = "Path" -> PathToDict(d)
    [] d.class = "Drilling" -> DrillingToDict(d)
    [] d.class = "Probing" -> ProbingToDict(d)
    [] d.class = "Manipulation" -> ManipulationToDict(d)

\* str(x): a value of an _id field is given with its type and the text
\* str() makes of it.
PyStr(x) == x.text

Action(id, atype, definition, description) ==
  [class |-> "Action", id |-> id, type |-> atype, definition |-> definition,
   description |-> description]

\* The body of the try block of Action.parse.
ActionParseTry(r, id) ==
  IF ~Has(ACTION_DEFINITION, r.type) THEN KeyError(r.type)
  ELSE IF ~Has(r, "definition") THEN KeyError("definition")
  ELSE LET definition == DefinitionParse(ACTION_DEFINITION[r.type],
                                         r.definition) IN
    IF ~definition.ok THEN definition
    ELSE IF ~Has(r, "description") THEN KeyError("description")
    ELSE Return(Action(id, r.type, definition.val, r.description))

\* except KeyError: print(...), and the function falls off its end.
ActionParseExcept(r, try) ==
  IF ~try.ok /\ try.exc.type = "KeyError"
  THEN [ret |-> Return(None),
        out |-> <<[text |-> "is not a valid action type", type |-> r.type]>>]
  ELSE [ret |-> try, out |-> <<>>]

\* Action.parse: what it returns or raises (ret) and what it prints (out).
ActionParse(r) ==
  IF ~Has(r, "type") THEN [ret |-> KeyError("type"), out |-> <<>>]
  ELSE IF ~Has(r, "_id") THEN [ret |-> KeyError("_id"), out |-> <<>>]
  ELSE ActionParseExcept(r, ActionParseTry(r, PyStr(r._id)))

\* The property setters: the object after the assignment (self) and what
\* the assignment returned or raised (ret).
\* An id setter that assigns.
ActionSetId_Assigns(self, nid) ==
  [self |-> [self EXCEPT !.id = nid], ret |-> Return(None)]

ActionSetId(self, nid) ==
  [self |-> self, ret |-> Raise("ValueError", "id redefinition forbidden")]

ActionSetType(self, ntype) ==
  [self |-> self, ret |-> Raise("ValueError", "type redefinition forbidden")]

ActionSetDefinition(self, ndef) ==
  [self |-> self,
   ret |-> Raise("ValueError", "definition redefinition forbidden")]

ActionSetDescription(self, ndesc) ==
  [self |-> [self EXCEPT !.description = ndesc], ret |-> Return(None)]

\* A str as the value of an _id field.
StrValue(text) == [type |-> "str", text |-> text]

\* Action.to_dict; with drop_id the "_id" key is popped.
ActionToDict(self, drop_id) ==
  LET d_action == [_id |-> StrValue(self.id), type |-> self.type,
                   description |-> self.description,
                   definition |-> DefinitionToDict(self.definition)]
  IN  IF drop_id THEN Without(d_action, "_id") ELSE d_action

\* get_commands answering an unregistered type with no commands.
ActionGetCommands_Lenient(self, cmd_list) ==
  IF ~Has(COMMAND_REGISTER, self.type)
  THEN [ret |-> Return(<<>>), calls |-> <<>>]
  ELSE [ret |-> Return([i \in 1..Len(cmd_list) |-> CommandToDict(cmd_list[i])]),
        calls |-> <<[cmd_fct |-> COMMAND_REGISTER[self.type],
                     arg |-> self.definition, returned |-> cmd_list]>>]

\* Action.get_commands, where cmd_list is what the registered generator
\* returns when it is invoked: what the method returns or raises (ret) and
\* the generator invocations it made (calls), each with the function
\* invoked, its argument and what it returned.
ActionGetCommands(self, cmd_list) ==
  IF ~Has(COMMAND_REGISTER, self.type)
  THEN [ret |-> KeyError(self.type), calls |-> <<>>]
  ELSE [ret |-> Return([i \in 1..Len(cmd_list) |-> CommandToDict(cmd_list[i])]),
        calls |-> <<[cmd_fct |-> COMMAND_REGISTER[self.type],
                     arg |-> self.definition, returned |-> cmd_list]>>]

---------------------------------------------------------------------------
(* The command-generator registries the process may have been started      *)
(* with, the Command lists a generator may return, and the Action records. *)

CommandRegisters ==
  { [t \in {"MOVE.TCP.WORK", "MOVE.STATION.HOME", "WORK.PROBE"} |-> "path_cmds"],
    [t \in {"WORK.DRILL", "LOAD.EFFECTOR", "MOVE.TCP.WORK"} |-> "work_cmds"] }

Uids == {"uid-a", "uid-b", "uid-c"}

Commands ==
  { Command(u, IF u = "uid-b" THEN "station" ELSE "robot", "REQUEST",
            "generated", [uid |-> u]) : u \in Uids }

\* uuid4 does not repeat: the Commands of one list have different uids.
CommandLists ==
  { l \in SeqsUpTo(Commands, MaxCommands) :
      \A i, j \in 1..Len(l) : i # j => l[i].uid # l[j].uid }

ActionTypes == DOMAIN ACTION_DEFINITION \cup {"MOVE.FLY"}

IdValues == { [type |-> "str", text |-> "1"], [type |-> "int", text |-> "42"] }

Descriptions == {"hole A", "hole B"}

\* The definition records tried under every action type.
ActionDefinitionRecords ==
  { r \in PathRecords :
      /\ Has(r, "movements") /\ Has(r, "uf") /\ Has(r, "ut")
      /\ r.uf = "WORLD"
      /\ r.ut \in {"GUN1", "SAW9"}
      /\ r.movements \in
           { <<m>> : m \in { x \in MovementRecords : x.cnt = 0 } } }
  \cup { r \in DrillingRecords :
           Has(r, "speed") /\ Has(r, "feed") /\ Has(r, "peak_frequency") }
  \cup {PeakDrillingRecord}
  \cup { r \in ProbingRecords :
           /\ Has(r, "movement") /\ Has(r, "uf") /\ Has(r, "ut")
           /\ r.ut = "DRILL1"
           /\ r.movement \in ValidMovementRecords /\ r.movement.cnt = 7 }
  \cup { r \in ManipulationRecords :
           /\ Has(r, "equipment") /\ Has(r, "manipulation")
           /\ Has(r.equipment, "type") /\ Has(r.equipment, "reference")
           /\ r.equipment.type = "EFFECTOR"
           /\ r.manipulation # "UNLOAD" }

ActionRecords ==
  { [type |-> t, _id |-> i, description |-> "hole A", definition |-> d] :
      t \in ActionTypes, i \in IdValues, d \in ActionDefinitionRecords }
  \cup
  { Without([type |-> t, _id |-> CHOOSE i \in IdValues : i.type = "str",
             description |-> "hole A", definition |-> d], k) :
      t \in {"WORK.DRILL", "LOAD.EFFECTOR"},
      d \in { x \in FullDrillingRecords : x.peak_frequency = 50 },
      k \in {"type", "_id", "description", "definition"} }

---------------------------------------------------------------------------
(* The caller: it parses one record and works on what it got. *)

Init ==
  /\ EQUIPMENT \in EquipmentRegistries
  /\ REFERENCE \in ReferenceRegistries
  /\ COMMAND_REGISTER \in CommandRegisters
  /\ pc = "idle"
  /\ rec = None
  /\ res = None
  /\ ser = None
  /\ res2 = None
  /\ cmd = None
  /\ action = None
  /\ built = None
  /\ ret = None
  /\ calls = <<>>
  /\ stdout = <<>>

registries == <<EQUIPMENT, REFERENCE, COMMAND_REGISTER>>

actionVars == <<action, built, ret, calls, stdout>>

\* A parser is called on a record.
Parsed(r, result) ==
  /\ pc = "idle"
  /\ rec' = r
  /\ res' = result
  /\ UNCHANGED <<registries, ser, res2, cmd, actionVars>>

CallPathParse ==
  \E r \in PathRecords : Parsed(r, PathParse(r)) /\ pc' = "Path.parse"

CallDrillingParse ==
  \E r \in DrillingRecords : Parsed(r, DrillingParse(r)) /\ pc' = "Drilling.parse"

CallProbingParse ==
  \E r \in ProbingRecords : Parsed(r, ProbingParse(r)) /\ pc' = "Probing.parse"

CallManipulationParse ==
  \E r \in ManipulationRecords :
    Parsed(r, ManipulationParse(r)) /\ pc' = "Manipulation.parse"

CallPositionParse ==
  \E r \in PositionRecords : Parsed(r, PositionParse(r)) /\ pc' = "Position.parse"

\* Configuration.parse is called on a record, well formed or not.
CallConfigurationParse ==
  \E r \in ConfigRecords
           \cup { [c EXCEPT !.arm = "SIDEWAYS"] : c \in ConfigRecords }
           \cup { Without(c, "j5") : c \in ConfigRecords } :
    Parsed(r, ConfigurationParse(r)) /\ pc' = "Configuration.parse"

\* to_dict is called on the object the parser returned.
Serialized(from, dict) ==
  /\ pc = from
  /\ res.ok
  /\ ser' = dict
  /\ UNCHANGED <<registries, rec, res, res2, cmd, actionVars>>

CallPathToDict ==
  Serialized("Path.parse", PathToDict(res.val)) /\ pc' = "Path.to_dict"

CallDrillingToDict ==
  Serialized("Drilling.parse", DrillingToDict(res.val))
  /\ pc' = "Drilling.to_dict"

CallProbingToDict ==
  Serialized("Probing.parse", ProbingToDict(res.val)) /\ pc' = "Probing.to_dict"

CallManipulationToDict ==
  Serialized("Manipulation.parse", ManipulationToDict(res.val))
  /\ pc' = "Manipulation.to_dict"

CallPositionToDict ==
  Serialized("Position.parse", PositionToDict(res.val))
  /\ pc' = "Position.to_dict"

CallConfigurationToDict ==
  Serialized("Configuration.parse", ConfigurationToDict(res.val))
  /\ pc' = "Configuration.to_dict"

\* The parser is called again, on what to_dict returned.
Reparsed(from, result) ==
  /\ pc = from
  /\ res2' = result
  /\ UNCHANGED <<registries, rec, res, ser, cmd, actionVars>>

CallPathReparse ==
  Reparsed("Path.to_dict", PathParse(ser)) /\ pc' = "Path.reparse"

CallDrillingReparse ==
  Reparsed("Drilling.to_dict", DrillingParse(ser)) /\ pc' = "Drilling.reparse"

CallProbingReparse ==
  Reparsed("Probing.to_dict", ProbingParse(ser)) /\ pc' = "Probing.reparse"

\* to_cmd_data is called on the object the parser returned.
CmdData(from, data) ==
  /\ pc = from
  /\ res.ok
  /\ cmd' = data
  /\ UNCHANGED <<registries, rec, res, ser, res2, actionVars>>

CallPathToCmdData ==
  CmdData("Path.parse", PathToCmdData(res.val)) /\ pc' = "Path.to_cmd_data"

CallPositionToCmdData ==
  CmdData("Position.parse", PositionToCmdData(res.val))
  /\ pc' = "Position.to_cmd_data"

definitionVars == <<rec, res, ser, res2, cmd>>

\* Action.parse is called on a record; the caller keeps what it returns.
CallActionParse ==
  \E r \in ActionRecords :
    LET p == ActionParse(r) IN
    /\ pc = "idle"
    /\ pc' = "Action.parse"
    /\ rec' = r
    /\ ret' = p.ret
    /\ stdout' = stdout \o p.out
    /\ action' = IF p.ret.ok THEN p.ret.val ELSE None
    /\ built' = action'
    /\ UNCHANGED <<registries, res, ser, res2, cmd, calls>>

ActionSteps ==
  {"Action.parse", "Action.id=", "Action.type=", "Action.definition=",
   "Action.description=", "Action.to_dict", "Action.get_commands",
   "Position.vector=", "Position.e1="}

\* The caller holds an Action.
Holding == pc \in ActionSteps /\ action # None

\* A call on the Action the caller holds.
Called(step, self, result) ==
  /\ Holding
  /\ pc' = step
  /\ action' = self
  /\ ret' = result
  /\ UNCHANGED <<registries, definitionVars, built, stdout>>

CallSetId ==
  \E nid \in {"1", "2"} :
    LET c == ActionSetId(action, nid) IN
    Called("Action.id=", c.self, c.ret) /\ UNCHANGED calls

CallSetType ==
  \E ntype \in {"WORK.DRILL", "MOVE.TCP.WORK"} :
    LET c == ActionSetType(action, ntype) IN
    Called("Action.type=", c.self, c.ret) /\ UNCHANGED calls

CallSetDefinition ==
  \E ndef \in {Drilling(1, 1, 1, 1, 1, 1), None} :
    LET c == ActionSetDefinition(action, ndef) IN
    Called("Action.definition=", c.self, c.ret) /\ UNCHANGED calls

CallSetDescription ==
  \E ndesc \in Descriptions :
    LET c == ActionSetDescription(action, ndesc) IN
    Called("Action.description=", c.self, c.ret) /\ UNCHANGED calls

CallToDict ==
  \E drop_id \in BOOLEAN :
    Called("Action.to_dict", action, Return(ActionToDict(action, drop_id)))
    /\ UNCHANGED calls

\* Action.parse is called on what to_dict returned for the Action held.
CallActionReparse ==
  LET p == ActionParse(ret.val) IN
  /\ Holding
  /\ pc = "Action.to_dict"
  /\ pc' = "Action.reparse"
  /\ rec' = ret.val
  /\ ret' = p.ret
  /\ stdout' = stdout \o p.out
  /\ UNCHANGED <<registries, res, ser, res2, cmd, action, built, calls>>

CallGetCommands ==
  \E cmd_list \in CommandLists :
    LET c == ActionGetCommands(action, cmd_list) IN
    /\ Called("Action.get_commands", action, c.ret)
    /\ calls' = c.calls

\* action.definition.movements (a Path) or [action.definition.movement] (a
\* Probing): the movements the caller reaches through the public accessors.
Reachable(self) ==
  CASE self.definition.class = "Path" -> self.definition.movements
    [] self.definition.class = "Probing" -> <<self.definition.movement>>
    [] OTHER -> <<>>

\* The Action after a setter of its i-th reachable position has run: the
\* accessors hand out the object itself, not a copy.
WithPosition(self, i, pos) ==
  CASE self.definition.class = "Path" ->
         [self EXCEPT !.definition.movements[i].position = pos]
    [] self.definition.class = "Probing" ->
         [self EXCEPT !.definition.movement.position = pos]

\* The vectors and e1 values a caller assigns.
NewVectors == {VecShort, VecLong}

NewE1s == {0, 7}

CallSetVector ==
  /\ Holding
  /\ \E i \in 1..Len(Reachable(action)), nvector \in NewVectors :
       LET c == PositionSetVector(Reachable(action)[i].position, nvector) IN
       Called("Position.vector=", WithPosition(action, i, c.self), c.ret)
  /\ UNCHANGED calls

CallSetE1 ==
  /\ Holding
  /\ \E i \in 1..Len(Reachable(action)), ne1 \in NewE1s :
       LET c == PositionSetE1(Reachable(action)[i].position, ne1) IN
       Called("Position.e1=", WithPosition(action, i, c.self), c.ret)
  /\ UNCHANGED calls

Next ==
  \/ CallPathParse
  \/ CallDrillingParse
  \/ CallProbingParse
  \/ CallManipulationParse
  \/ CallPositionParse
  \/ CallConfigurationParse
  \/ CallPathToDict
  \/ CallDrillingToDict
  \/ CallProbingToDict
  \/ CallManipulationToDict
  \/ CallPositionToDict
  \/ CallConfigurationToDict
  \/ CallPathReparse
  \/ CallDrillingReparse
  \/ CallProbingReparse
  \/ CallPathToCmdData
  \/ CallPositionToCmdData
  \/ CallActionParse
  \/ CallSetId
  \/ CallSetType
  \/ CallSetDefinition
  \/ CallSetDescription
  \/ CallToDict
  \/ CallActionReparse
  \/ CallGetCommands

Spec == Init /\ [][Next]_vars

\* The caller of an Action who also assigns to the positions it reaches.
NextMutable ==
  \/ CallActionParse
  \/ CallSetId
  \/ CallSetType
  \/ CallSetDefinition
  \/ CallSetDescription
  \/ CallSetVector
  \/ CallSetE1
  \/ CallToDict
  \/ CallGetCommands

SpecMutable == Init /\ [][NextMutable]_vars

---------------------------------------------------------------------------
(* Round trip of Path, Drilling and Probing records. *)

ReparseSteps == {"Path.reparse", "Drilling.reparse", "Probing.reparse"}

\* A parsed object with every position vector component rounded to three
\* decimals.
RoundedPosition(pos) ==
  [pos EXCEPT !.vector = [i \in 1..Len(@) |-> Round3(@[i])]]

RoundedMovement(m) == [m EXCEPT !.position = RoundedPosition(@)]

RoundedDefinition(d) ==
  CASE d.class = "Path" ->
         [d EXCEPT !.movements = [i \in 1..Len(@) |-> RoundedMovement(@[i])]]
    [] d.class = "Probing" -> [d EXCEPT !.movement = RoundedMovement(@)]
    [] OTHER -> d

\* The movements of a parsed Path or Probing; none for a Drilling.
MovementsOf(d) ==
  CASE d.class = "Path" -> d.movements
    [] d.class = "Probing" -> <<d.movement>>
    [] OTHER -> <<>>

\* No vector component of the object has more than three decimals.
ThreeDecimals(d) ==
  \A i \in 1..Len(MovementsOf(d)) :
    \A k \in 1..Len(MovementsOf(d)[i].position.vector) :
      MovementsOf(d)[i].position.vector[k] % 10 = 0

\* C1, as stated: for every valid Path, Drilling or Probing record r,
\* parse(to_dict(parse(r))) equals parse(r) field by field, position
\* vectors included.
C1_RoundTripExact == pc \in ReparseSteps => res2 = res

\* C1, amended: for every valid Path, Drilling or Probing record r,
\* parse(to_dict(parse(r))) succeeds and equals parse(r) in every field
\* except that each position vector component is the one of parse(r)
\* rounded to three decimals; the two are equal when no component of r has
\* more than three decimals.
C1_RoundTripUpToRounding ==
  pc \in ReparseSteps =>
    /\ res2 = Return(RoundedDefinition(res.val))
    /\ ThreeDecimals(res.val) => res2 = res

\* A Path of two movements, one of them with a four-decimal vector, has
\* been parsed, serialized and parsed again.
C1_Witness ==
  /\ pc = "Path.reparse"
  /\ res2.ok
  /\ Len(res.val.movements) = 2
  /\ ~ThreeDecimals(res.val)
  /\ res.val.movements[1].position.class = "PositionCrt"

---------------------------------------------------------------------------
(* Path.to_cmd_data. *)

\* C2: for a Path of n movements, to_cmd_data gives a parameters list and a
\* positions list of length n each, whose i-th entries are the parameters
\* and the position of the i-th movement.
C2_ParallelLists ==
  pc = "Path.to_cmd_data" =>
    LET ms == res.val.movements
        out == cmd.movements
    IN  /\ Len(out.positions) = Len(ms)
        /\ Len(out.parameters) = Len(ms)
        /\ \A i \in 1..Len(ms) :
             /\ out.positions[i] = PositionToCmdData(ms[i].position)
             /\ out.parameters[i] =
                  << <<"cnt", ms[i].cnt>>, <<"speed", ms[i].speed>>,
                     <<"type", ms[i].type>> >>

---------------------------------------------------------------------------
(* Action.parse and errors. *)

\* The fields each Definition parser reads from its record.
RequiredFields(class) ==
  CASE class = "Path" -> {"ut", "uf", "movements"}
    [] class = "Drilling" -> {"speed", "feed", "peak_frequency",
                              "peak_amplitude", "clamp_weight",
                              "drill_thickness"}
    [] class = "Probing" -> {"ut", "uf", "movement"}
    [] class = "Manipulation" -> {"equipment", "manipulation"}

\* C3: Action.parse on a record whose type is not in the dispatch table
\* fails with an error; it does not return.
C3_UnknownTypeRaises ==
  (/\ pc = "Action.parse"
   /\ Has(rec, "type")
   /\ ~Has(ACTION_DEFINITION, rec.type)) => ~ret.ok

\* C4: Action.parse on a record whose type is in the dispatch table and
\* which lacks 'description', or whose definition record lacks a required
\* field, fails with an error; it does not return.
C4_MissingFieldRaises ==
  (/\ pc = "Action.parse"
   /\ Has(rec, "type")
   /\ Has(ACTION_DEFINITION, rec.type)
   /\ \/ ~Has(rec, "description")
      \/ /\ Has(rec, "definition")
         /\ \E k \in RequiredFields(ACTION_DEFINITION[rec.type]) :
              ~Has(rec.definition, k)) => ~ret.ok

\* Registry `registry` has no member ref of kind `kind`.
Unknown(registry, kind, ref) ==
  ~Has(registry, kind) \/ ~Has(registry[kind].members, ref)

\* Definition record d has the fields of the given class and names an
\* equipment or a frame that the registries do not hold.
UnknownSymbolIn(class, d) ==
  /\ \A k \in RequiredFields(class) : Has(d, k)
  /\ IF class \in {"Path", "Probing"}
     THEN \/ Unknown(EQUIPMENT, "EFFECTOR", d.ut)
          \/ Unknown(REFERENCE, "FRAME", d.uf)
     ELSE /\ class = "Manipulation"
          /\ Has(d.equipment, "type")
          /\ Has(d.equipment, "reference")
          /\ Unknown(EQUIPMENT, d.equipment.type, d.equipment.reference)

\* C5: a definition record naming an equipment or frame absent from its
\* registry makes parsing fail with an error, when Path.parse,
\* Probing.parse or Manipulation.parse is called directly and when it is
\* reached through Action.parse.
C5_UnknownSymbolRaises ==
  /\ \A class \in {"Path", "Probing", "Manipulation"} :
       pc = class \o ".parse" /\ UnknownSymbolIn(class, rec) => ~res.ok
  /\ (/\ pc = "Action.parse"
      /\ Has(rec, "type")
      /\ Has(rec, "_id")
      /\ Has(rec, "definition")
      /\ Has(ACTION_DEFINITION, rec.type)
      /\ UnknownSymbolIn(ACTION_DEFINITION[rec.type], rec.definition))
       => ~ret.ok

---------------------------------------------------------------------------
(* The read-only fields of an Action. *)

SetterSteps == {"Action.id=", "Action.type=", "Action.definition="}

\* C6: once an Action is constructed its id, type and definition keep
\* their construction-time values, whatever assignments to id, type,
\* definition and description are attempted, and an assignment to id, type
\* or definition raises an error.
C6_ReadOnlyFields ==
  (pc \in ActionSteps /\ built # None) =>
    /\ action # None
    /\ action.id = built.id
    /\ action.type = built.type
    /\ action.definition = built.definition
    /\ pc \in SetterSteps => ~ret.ok /\ ret.exc.type = "ValueError"

\* An assignment to id has been attempted on an Action whose description
\* had been changed before.
C6_Witness ==
  /\ pc = "Action.id="
  /\ action # None
  /\ action.description # built.description

---------------------------------------------------------------------------
(* Manipulation. *)

\* C7: for a Manipulation parsed from {equipment: {type: T, reference: R},
\* manipulation: O}, to_dict returns exactly {manipulation: O,
\* equipment: {type: T, reference: R}}.
C7_ManipulationToDict ==
  pc = "Manipulation.to_dict" =>
    ser = [manipulation |-> rec.manipulation,
           equipment |-> [type |-> rec.equipment.type,
                          reference |-> rec.equipment.reference]]

---------------------------------------------------------------------------
(* The WORK.DRILL example. *)

StrOne == CHOOSE i \in IdValues : i.type = "str" /\ i.text = "1"

\* The record of the example, with a definition record d.
DrillExample(d) ==
  [type |-> "WORK.DRILL", _id |-> StrOne, description |-> "hole A",
   definition |-> d]

---------------------------------------------------------------------------
(* The serialized forms of a Position. *)

ConfigKeys == {"wrist", "forearm", "arm", "j4", "j5", "j6"}

\* Serialized position d of a position of the given type name has the
\* vector keys of its variant, in order, and the config of its variant.
VariantShape(typeName, d) ==
  /\ typeName = "CARTESIAN" =>
       /\ DictKeys(d.vector) = <<"x", "y", "z", "w", "p", "r">>
       /\ d.config # None
       /\ DOMAIN d.config = ConfigKeys
  /\ typeName = "JOINT" =>
       /\ DictKeys(d.vector) = <<"j1", "j2", "j3", "j4", "j5", "j6">>
       /\ d.config = None

\* C9: for every Position that Position.parse produced, directly or for a
\* movement of a Path, to_dict and to_cmd_data emit the vector with the
\* keys x, y, z, w, p, r in that order for a Cartesian position and
\* j1..j6 in that order for a Joint one, a null config for a Joint
\* position and a Configuration record for a Cartesian one.
C9_VariantShape ==
  /\ pc = "Position.to_dict" => VariantShape(rec.type, ser)
  /\ pc = "Position.to_cmd_data" => VariantShape(rec.type, cmd)
  /\ pc = "Path.to_dict" =>
       \A i \in 1..Len(rec.movements) :
         VariantShape(rec.movements[i].position.type,
                      ser.movements[i].position)
  /\ pc = "Path.to_cmd_data" =>
       /\ Len(cmd.movements.positions) = Len(rec.movements)
       /\ \A i \in 1..Len(rec.movements) :
            VariantShape(rec.movements[i].position.type,
                         cmd.movements.positions[i])

\* A Joint position whose record gave the vector keys in another order has
\* been parsed and encoded with to_cmd_data.
C9_Witness ==
  /\ pc = "Position.to_cmd_data"
  /\ rec.type = "JOINT"
  /\ DictKeys(rec.vector) # PositionJointKeys
  /\ cmd.type = "jnt"

---------------------------------------------------------------------------
(* Action.get_commands. *)

\* C10: get_commands on an Action whose type has no generator in the
\* registry fails with an error naming the type and invokes nothing; with
\* a generator registered, that generator is invoked exactly once, with
\* the Action's definition, and the result is the list of the serialized
\* forms of the Commands it returned, of the same length and in the same
\* order.
C10_GetCommands ==
  pc = "Action.get_commands" =>
    IF action.type \notin DOMAIN COMMAND_REGISTER
    THEN /\ ~ret.ok
         /\ ret.exc.arg = action.type
         /\ calls = <<>>
    ELSE /\ Len(calls) = 1
         /\ calls[1].cmd_fct = COMMAND_REGISTER[action.type]
         /\ calls[1].arg = action.definition
         /\ ret.ok
         /\ Len(ret.val) = Len(calls[1].returned)
         /\ \A i \in 1..Len(ret.val) :
              /\ ret.val[i].uid = calls[1].returned[i].uid
              /\ ret.val[i].target = calls[1].returned[i].target
              /\ ret.val[i].action = calls[1].returned[i].action
              /\ ret.val[i].description = calls[1].returned[i].description
              /\ ret.val[i].definition = calls[1].returned[i].definition

\* A registered generator returned two Commands.
C10_Witness ==
  /\ pc = "Action.get_commands"
  /\ ret.ok
  /\ Len(ret.val) = 2
  /\ ret.val[1].uid # ret.val[2].uid

---------------------------------------------------------------------------
(* The '_id' field of an Action record. *)

\* Record r has a type of the dispatch table, a description and a
\* definition that the type's parser accepts.
ValidButForId(r) ==
  /\ Has(r, "type")
  /\ Has(ACTION_DEFINITION, r.type)
  /\ Has(r, "description")
  /\ Has(r, "definition")
  /\ DefinitionParse(ACTION_DEFINITION[r.type], r.definition).ok

\* C11: Action.parse succeeds on an otherwise valid record with or without
\* '_id', a present '_id' becomes the Action's id, and a record that
\* to_dict(drop_id=True) produced is accepted by Action.parse.
C11_IdOptional ==
  /\ (pc = "Action.parse" /\ ValidButForId(rec)) =>
       /\ ret.ok
       /\ ret.val # None
       /\ Has(rec, "_id") => ret.val.id = rec._id.text
  /\ (pc = "Action.reparse" /\ ~Has(rec, "_id")) =>
       /\ ret.ok
       /\ ret.val # None

---------------------------------------------------------------------------
(* What a caller can change on a parsed Action. *)

\* Action a with the description of b.
WithDescriptionOf(a, b) == [a EXCEPT !.description = b.description]

\* Position p with the vector and e1 of q.
WithVectorE1Of(p, q) == [p EXCEPT !.vector = q.vector, !.e1 = q.e1]

\* Action a with the vector and e1 of every reachable position taken
\* from b.
WithPositionsOf(a, b) ==
  CASE a.definition.class = "Path" ->
         [a EXCEPT !.definition.movements =
            [i \in 1..Len(@) |->
               [@[i] EXCEPT !.position =
                  WithVectorE1Of(@, b.definition.movements[i].position)]]]
    [] a.definition.class = "Probing" ->
         [a EXCEPT !.definition.movement.position =
            WithVectorE1Of(@, b.definition.movement.position)]
    [] OTHER -> a

\* A to_dict output with 'description' blanked.
MaskDescription(d) == [d EXCEPT !.description = ""]

MaskMovement(m) == [m EXCEPT !.position.vector = <<>>, !.position.e1 = 0]

\* A to_dict output with 'description' and the 'vector' and 'e1' of every
\* position blanked.
MaskDescriptionVectorE1(d) ==
  [d EXCEPT !.description = "",
            !.definition =
               IF Has(@, "movements")
                 THEN [@ EXCEPT !.movements =
                         [i \in 1..Len(@) |-> MaskMovement(@[i])]]
               ELSE IF Has(@, "movement")
                 THEN [@ EXCEPT !.movement = MaskMovement(@)]
               ELSE @]

\* What to_dict, called as it was, would have returned at construction.
BuiltDict == ActionToDict(built, ~Has(ret.val, "_id"))

---------------------------------------------------------------------------
(* Round trip of a Configuration record. *)

\* C13: for every Configuration record c with valid wrist, forearm and arm
\* names and rotation codes j4, j5 and j6, Configuration.parse(c).to_dict()
\* equals c.
C13_ConfigurationRoundTrip == pc = "Configuration.to_dict" => ser = rec

====
